---- MODULE Spec2Model ----
(***************************************************************************)
(* Model of github.com/boostgo/worker: the Redis-backed Locker             *)
(* (locker.go), the middleware-driven Worker (NewWorker variant) and the   *)
(* stop-callback Worker (New variant).                                     *)
(*                                                                         *)
(* Time is discrete.  One time unit is 1/UnitsPerSecond of a second, so    *)
(* that lockTTL values below one second, of exactly one second and with a  *)
(* fractional number of seconds all have a whole renewInterval.            *)
(***************************************************************************)
EXTENDS Integers, Sequences, FiniteSets, TLC

\* ---------------------------------------------------------------- bounds
NumLockers == 2
MaxRenewers == 2
MaxMonitors == 2

Lockers == 1..NumLockers

\* One second, in time units (time.Duration.Seconds() divides by it).
UnitsPerSecond == 6

\* The configured lockTTL values: 0.5s, 1s and 1.5s.
TTLs == {3, 6, 9}

\* The key "worker:lock:<name>" does not exist in the store.
NoKey == 0

VARIABLES
    lockTTL,      \* Locker.lockTTL, the same for the whole fleet
    storeVal,     \* value stored under lockKey: NoKey or the owner's token
    storeTTL,     \* time units until the store expires lockKey (0: no key)
    lcancel,      \* per Locker: state of l.ctx / l.cancel: "nil", "live", "done"
    renewers,     \* per Locker: the running renewLock goroutines, each the
                  \* time units until its ticker fires next (0: tick pending)
    \* ---- observation of the lock protocol
    lastOp,       \* the last Locker operation and what it saw
    sinceTouch,   \* time units since the last successful acquire or renewal
    touchBy,      \* the instance that performed it (NoKey: none yet)
    released,     \* the key was deleted by an Unlock since then
    lapsed,       \* the instance whose record the store expired last (NoKey: none)
    race,         \* the TryLock calls made since the key was last absent
    \* ---- the Worker: configuration
    variant,            \* "NewWorker" (middlewares) or "New" (stop callback)
    fleet,              \* the instances on which Run is called
    fromStart,          \* Worker.fromStart
    hasHandler,         \* Worker.errorHandler != nil
    timeout,            \* Worker.timeout, in time units (0: Timeout() not called)
    duration,           \* Worker.duration, the tick interval, in time units
    beforeMiddlewares,  \* Worker.beforeMiddlewares, by kind
    afterMiddlewares,   \* Worker.afterMiddlewares, by kind
    \* ---- the Worker: state, per instance
    pc,           \* where the caller of Run ("main") and the tick goroutine
                  \* ("loop") stand
    cyc,          \* the action cycle each of the two is running or ran last
    stopper,      \* Worker.stopper: signals buffered (capacity 1)
    done,         \* Worker.done: signals buffered (capacity 1)
    tickPending,  \* ticker.C holds a tick
    ctxDone,      \* the external context (appx.Context() / worker.ctx) is cancelled
    \* ---- CancelRunningWorker, per instance
    ccancel,      \* the context c.cancel cancels: "nil", "live", "done"
    monitors,     \* the running monitorLock goroutines, by the context each
                  \* listens on: cur (the one c.cancel cancels), oldLive, oldDone
    \* ---- observation of the Worker
    stopFired,    \* a stop signal has fired
    doneSent,     \* number of sends on Worker.done
    waited,       \* the wait function handed to teardown has returned
    running,      \* action cycles begun and not yet returned
    log,          \* per goroutine: what its current cycle has run so far
    handled,      \* per goroutine: what Run did with its last cycle's result
    taken,        \* ticks the tick loop of the Worker under study has received
    begun         \* action cycles the Worker under study has begun

lockVars == <<lockTTL, storeVal, storeTTL, lcancel, renewers>>
leaseVars == <<sinceTouch, touchBy, released>>
raceVars == <<lapsed, race>>
obsVars == <<lastOp, leaseVars, raceVars>>
confVars == <<variant, fleet, fromStart, hasHandler, timeout, duration,
              beforeMiddlewares, afterMiddlewares>>
watchVars == <<ccancel, monitors>>
workVars == <<pc, cyc, stopper, done, tickPending, ctxDone>>
wobsVars == <<stopFired, doneSent, waited, running>>

traceVars == <<log, handled, taken, begun>>

vars == <<lockVars, obsVars, confVars, watchVars, workVars, wobsVars, traceVars>>

\* ------------------------------------------------------------ the Locker

\* NewLocker: lockValue is a fresh 128-bit random token per instance; the
\* instance number stands for it.
generateLockValue(l) == l

\* NewLocker: renewInterval: lockTTL / 3.
renewInterval(ttl) == ttl \div 3

\* int(l.lockTTL.Seconds()): the float number of seconds, truncated.
SecondsArg(ttl) == ttl \div UnitsPerSecond

\* A plain SET in place of SET NX.
SetOverwrite(val) == TRUE

\* redis SET key value NX with expiry: the reply is true iff the key was absent.
SetNX(val) == val = NoKey

\* redis EXPIRE key seconds, as the renewal script calls it on its own key: a
\* timeout that is not positive deletes the key.  The store's <<value, ttl>>.
Expire(val, seconds) ==
    IF seconds <= 0 THEN <<NoKey, 0>> ELSE <<val, seconds * UnitsPerSecond>>

\* The renewal script: <<reply, value, ttl>>.
RenewScript(val, ttl, token, seconds) ==
    IF val = token
    THEN <<1>> \o Expire(val, seconds)
    ELSE <<0, val, ttl>>

\* A release that deletes the key without comparing the token.
UnlockAlways(val, ttl, token) == <<1, NoKey, 0>>

\* The release script: <<reply, value, ttl>>.
UnlockScript(val, ttl, token) ==
    IF val = token THEN <<1, NoKey, 0>> ELSE <<0, val, ttl>>

Results == {"nil", "ErrLocked", "err"}

\* The sequence s without its k-th element.
Remove(s, k) == [j \in 1..(Len(s) - 1) |-> IF j < k THEN s[j] ELSE s[j + 1]]

\* The ascending sequence s with x added (goroutines of one Locker differ
\* only in their tickers, so they are kept in ticker order).
Insert(s, x) ==
    LET c == Cardinality({j \in DOMAIN s : s[j] <= x})
    IN [j \in 1..(Len(s) + 1) |->
          IF j <= c THEN s[j] ELSE IF j = c + 1 THEN x ELSE s[j - 1]]

Max(a, b) == IF a > b THEN a ELSE b
MaxTTL == CHOOSE t \in TTLs : \A u \in TTLs : u <= t

RECURSIVE Sum(_, _)
Sum(f, S) == IF S = {} THEN 0
             ELSE LET x == CHOOSE y \in S : TRUE IN f[x] + Sum(f, S \ {x})

\* The renewLock goroutines running in the whole fleet.
NumRenewers == Sum([l \in Lockers |-> Len(renewers[l])], Lockers)

\* Locker.TryLock, returning r.
TryLock(l, r) ==
    /\ NumRenewers < MaxRenewers
    /\ \/ /\ r = "err"                      \* SetNX failed
          /\ UNCHANGED <<storeVal, storeTTL, lcancel, renewers>>
       \/ /\ ~SetNX(storeVal)
          /\ r = "ErrLocked"
          /\ UNCHANGED <<storeVal, storeTTL, lcancel, renewers>>
       \/ /\ SetNX(storeVal)
          /\ r = "nil"
          /\ storeVal' = generateLockValue(l)
          /\ storeTTL' = lockTTL
          /\ lcancel' = [lcancel EXCEPT ![l] = "live"]
          /\ renewers' = [renewers EXCEPT ![l] = Insert(@, renewInterval(lockTTL))]
    /\ UNCHANGED lockTTL

\* Locker.Unlock, returning r.
Unlock(l, r) ==
    /\ lcancel' = [lcancel EXCEPT ![l] = IF @ = "nil" THEN "nil" ELSE "done"]
    /\ \/ /\ r = "err"                      \* Eval failed
          /\ UNCHANGED <<storeVal, storeTTL>>
       \/ /\ r = "nil"
          /\ LET s == UnlockScript(storeVal, storeTTL, generateLockValue(l))
             IN /\ storeVal' = s[2]
                /\ storeTTL' = s[3]
    /\ UNCHANGED <<lockTTL, renewers>>

\* renewLock, case <-l.ctx.Done(): the goroutine returns.
RenewDone(l, k) ==
    /\ k \in DOMAIN renewers[l]
    /\ lcancel[l] = "done"
    /\ renewers' = [renewers EXCEPT ![l] = Remove(@, k)]
    /\ UNCHANGED <<lockTTL, storeVal, storeTTL, lcancel>>

\* A renewal loop that goes on ticking after a failed or lost renewal.
RenewTickKeepsOn(l, k, fail) ==
    /\ k \in DOMAIN renewers[l]
    /\ renewers[l][k] = 0
    /\ lcancel[l] = "done" => fail
    /\ IF fail
       THEN UNCHANGED <<storeVal, storeTTL>>
       ELSE LET s == RenewScript(storeVal, storeTTL, generateLockValue(l),
                                 SecondsArg(lockTTL))
            IN storeVal' = s[2] /\ storeTTL' = s[3]
    /\ renewers' = [renewers EXCEPT ![l] = Insert(Remove(@, k), renewInterval(lockTTL))]
    /\ UNCHANGED <<lockTTL, lcancel>>

\* renewLock, case <-ticker.C: one compare-and-extend.  fail: the Eval call
\* returns an error (it always does once l.ctx is cancelled).
RenewTick(l, k, fail) ==
    /\ k \in DOMAIN renewers[l]
    /\ renewers[l][k] = 0
    /\ lcancel[l] = "done" => fail
    /\ IF fail
       THEN /\ lcancel' = [lcancel EXCEPT ![l] = "done"]
            /\ renewers' = [renewers EXCEPT ![l] = Remove(@, k)]
            /\ UNCHANGED <<storeVal, storeTTL>>
       ELSE LET s == RenewScript(storeVal, storeTTL, generateLockValue(l),
                                 SecondsArg(lockTTL))
            IN /\ storeVal' = s[2]
               /\ storeTTL' = s[3]
               /\ IF s[1] = 0
                  THEN /\ lcancel' = [lcancel EXCEPT ![l] = "done"]
                       /\ renewers' = [renewers EXCEPT ![l] = Remove(@, k)]
                  ELSE /\ renewers' = [renewers EXCEPT ![l] =
                                          Insert(Remove(@, k), renewInterval(lockTTL))]
                       /\ UNCHANGED lcancel
    /\ UNCHANGED lockTTL

\* One time unit passes: the store's expiry clock and every renewal ticker
\* advance; a key whose time to live has run out is gone.
TimePass ==
    /\ storeTTL' = Max(storeTTL - 1, 0)
    /\ storeVal' = IF storeTTL = 1 THEN NoKey ELSE storeVal
    /\ renewers' = [l \in Lockers |->
                      [k \in DOMAIN renewers[l] |-> Max(renewers[l][k] - 1, 0)]]
    /\ UNCHANGED <<lockTTL, lcancel>>

\* --------------------------------------------- observing the lock protocol

NoOp == [op |-> "none", who |-> 0, res |-> "nil",
         preVal |-> 0, preTTL |-> 0, gap |-> 0, prev |-> 0, rel |-> FALSE]

\* An Unlock is recorded with the record it found, a successful TryLock with
\* the time since the key was last written, by whom, and whether released.
Op(name, l, r) ==
    [NoOp EXCEPT !.op = name, !.who = l, !.res = r,
                 !.preVal = IF name = "Unlock" THEN storeVal ELSE 0,
                 !.preTTL = IF name = "Unlock" THEN storeTTL ELSE 0,
                 !.gap = IF name = "TryLock" /\ r = "nil" THEN sinceTouch ELSE 0,
                 !.prev = IF name = "TryLock" /\ r = "nil" THEN touchBy ELSE 0,
                 !.rel = IF name = "TryLock" /\ r = "nil" THEN released ELSE FALSE]

NoRace == [valid |-> FALSE, res |-> [l \in Lockers |-> "-"]]

\* The race record after a TryLock of l with result r: a race starts with a
\* call that finds the key absent and goes on with the first calls of the
\* other instances; a failed store call ends it.
RaceAfter(l, r) ==
    IF r = "err" THEN NoRace
    ELSE IF race.valid /\ race.res[l] = "-"
         THEN [race EXCEPT !.res[l] = r]
    ELSE IF storeVal = NoKey
         THEN [valid |-> TRUE, res |-> [k \in Lockers |-> IF k = l THEN r ELSE "-"]]
    ELSE NoRace

Touch(l) ==
    /\ sinceTouch' = 0
    /\ touchBy' = l
    /\ released' = FALSE

\* The calls and their races, as the protocol claims read them.
ObsTryLock(l, r) ==
    /\ lastOp' = Op("TryLock", l, r)
    /\ race' = RaceAfter(l, r)
    /\ UNCHANGED lapsed

ObsUnlock(l, r) ==
    /\ lastOp' = Op("Unlock", l, r)
    /\ race' = NoRace
    /\ UNCHANGED lapsed

\* What a renewal step found: the Eval call failed ("err"), the script
\* replied 0 ("lost"), or the script replied with EXPIRE's result ("nil").
RenewResult(l, fail) ==
    IF fail THEN "err"
    ELSE IF RenewScript(storeVal, storeTTL, generateLockValue(l),
                        SecondsArg(lockTTL))[1] = 0 THEN "lost"
    ELSE "nil"

ObsRenew(l, fail) ==
    /\ lastOp' = Op("Renew", l, RenewResult(l, fail))
    /\ race' = NoRace
    /\ UNCHANGED lapsed

ObsTime ==
    /\ lastOp' = NoOp
    /\ race' = IF storeTTL = 1 THEN NoRace ELSE race
    /\ lapsed' = IF storeTTL = 1 THEN storeVal ELSE lapsed

\* The lease clock: who wrote the key last, how long ago, and whether an
\* Unlock deleted it since.
LeaseTryLock(l, r) ==
    /\ lastOp' = Op("TryLock", l, r)
    /\ IF r = "nil" THEN Touch(l) ELSE UNCHANGED leaseVars

LeaseUnlock(l, r) ==
    /\ lastOp' = Op("Unlock", l, r)
    /\ released' = (released \/ (storeVal # NoKey /\ storeVal' = NoKey))
    /\ UNCHANGED <<sinceTouch, touchBy>>

LeaseRenew(l, fail) ==
    /\ lastOp' = Op("Renew", l, RenewResult(l, fail))
    /\ IF RenewResult(l, fail) = "nil" THEN Touch(l) ELSE UNCHANGED leaseVars

LeaseTime ==
    /\ lastOp' = NoOp
    /\ sinceTouch' = IF sinceTouch < lockTTL THEN sinceTouch + 1 ELSE sinceTouch
    /\ UNCHANGED <<touchBy, released>>

\* ------------------------------------------------------------ the Worker

\* Each Worker instance owns the Locker of the same number.
Workers == Lockers

\* The Worker under study.
W1 == 1

\* The two goroutines of a Worker: the caller of Run, and the tick loop.
G == {"main", "loop"}

\* What an action can do: return nil, return an error, panic.
Outcomes == {"nil", "err", "panic"}

NoCycle == [idx |-> 0, locked |-> FALSE, out |-> "none", ret |-> "none",
            ctx |-> "live", age |-> 0]

Ev(e, i, r) == [e |-> e, i |-> i, r |-> r]

NoMonitors == [cur |-> 0, oldLive |-> 0, oldDone |-> 0]

IdleWorkers ==
    /\ pc = [w \in Workers |-> [g \in G |-> IF g = "main" THEN "start" ELSE "off"]]
    /\ cyc = [w \in Workers |-> [g \in G |-> NoCycle]]
    /\ stopper = [w \in Workers |-> 0]
    /\ done = [w \in Workers |-> 0]
    /\ tickPending = [w \in Workers |-> FALSE]
    /\ ctxDone = [w \in Workers |-> FALSE]
    /\ stopFired = [w \in Workers |-> FALSE]
    /\ doneSent = [w \in Workers |-> 0]
    /\ waited = [w \in Workers |-> FALSE]
    /\ running = [w \in Workers |-> 0]
    /\ log = [w \in Workers |-> [g \in G |-> <<>>]]
    /\ handled = [w \in Workers |-> [g \in G |-> "pending"]]
    /\ taken = 0
    /\ begun = 0
    /\ ccancel = [w \in Workers |-> "nil"]
    /\ monitors = [w \in Workers |-> NoMonitors]

\* The monitorLock goroutines of one CancelRunningWorker.
NumMonitors(w) == monitors[w].cur + monitors[w].oldLive + monitors[w].oldDone

\* Locker.IsLocked: false on a read error, else whether the stored value is
\* this instance's token.
IsLocked(l, readErr) == ~readErr /\ storeVal = generateLockValue(l)

\* CancelRunningWorker.Middleware, returning r: ErrLocked unless IsLocked;
\* else a child of the hook's context is made, its cancel function is kept in
\* c.cancel, and a monitorLock goroutine is started on the child.  The
\* goroutines of earlier calls go on listening on their own contexts.
CancelMiddleware(w, r) ==
    \/ /\ r = "ErrLocked"
       /\ \E readErr \in BOOLEAN : ~IsLocked(w, readErr)
       /\ UNCHANGED watchVars
    \/ /\ r = "nil"
       /\ IsLocked(w, FALSE)
       /\ NumMonitors(w) < MaxMonitors
       /\ ccancel' = [ccancel EXCEPT ![w] = "live"]
       /\ monitors' = [monitors EXCEPT ![w] =
             [cur |-> 1,
              oldLive |-> @.oldLive + (IF ccancel[w] = "live" THEN @.cur ELSE 0),
              oldDone |-> @.oldDone + (IF ccancel[w] = "live" THEN 0 ELSE @.cur)]]

\* The goroutines of worker w that listen on a context of kind k.
Listening(w, k) ==
    CASE k = "cur" -> monitors[w].cur
      [] k = "oldLive" -> monitors[w].oldLive
      [] k = "oldDone" -> monitors[w].oldDone

\* One monitorLock goroutine listening on a context of kind k is gone.
Leave(m, k) ==
    CASE k = "cur" -> [m EXCEPT !.cur = @ - 1]
      [] k = "oldLive" -> [m EXCEPT !.oldLive = @ - 1]
      [] k = "oldDone" -> [m EXCEPT !.oldDone = @ - 1]

MonitorKinds == {"cur", "oldLive", "oldDone"}

\* monitorLock, case <-ctx.Done(): the goroutine returns.
MonitorDone(w, k) ==
    /\ Listening(w, k) > 0
    /\ k = "oldDone" \/ (k = "cur" /\ ccancel[w] = "done")
    /\ monitors' = [monitors EXCEPT ![w] = Leave(@, k)]
    /\ UNCHANGED ccancel

\* monitorLock, case <-ticker.C: one poll.  When IsLocked is false the
\* goroutine calls c.cancel, which cancels the child context of the latest
\* Middleware call, and returns; the context the hooks and the action run
\* with is the parent of that child.
MonitorTick(w, k, readErr) ==
    /\ Listening(w, k) > 0
    /\ IF IsLocked(w, readErr)
       THEN UNCHANGED watchVars
       ELSE /\ ccancel' = [ccancel EXCEPT ![w] = "done"]
            /\ monitors' = [monitors EXCEPT ![w] = Leave(@, k)]

\* Any error taken for ErrLocked.
IsAnyError(r) == r # "nil"

\* errors.Is(err, ErrLocked)
IsErrLocked(r) == r = "ErrLocked"

\* errorx.TryContext: the function's error, or its panic as an error.
TryContext(out) ==
    CASE out = "nil" -> "nil"
      [] out = "err" -> "err"
      [] out = "panic" -> "errPanic"

\* try (New variant): the deferred function replaces a nil result by an error
\* made of whatever recover() returns, panic or not.
try(out) ==
    CASE out = "err" -> "err"
      [] out = "nil" -> "errNil"
      [] out = "panic" -> "errPanic"

\* What runAction returns for an action outcome: the NewWorker variant logs
\* TryContext's error and returns nil; the New variant returns try's result.
runActionResult(v, out) ==
    IF v = "NewWorker"
    THEN IF TryContext(out) # "nil" THEN "nil" ELSE "nil"
    ELSE try(out)

\* A middleware of the given kind runs for worker w and returns r:
\* LockMiddleware, UnlockMiddleware, or any other hook.
RunMiddleware(kind, w, r) ==
    /\ CASE kind = "Lock" -> TryLock(w, r) /\ UNCHANGED watchVars
         [] kind = "Unlock" -> r # "ErrLocked" /\ Unlock(w, r) /\ UNCHANGED watchVars
         [] kind = "Cancel" -> CancelMiddleware(w, r) /\ UNCHANGED lockVars
         [] OTHER -> UNCHANGED <<lockVars, watchVars>>
    /\ UNCHANGED obsVars

\* The Timeout() values: not configured, and 0.5s.
Timeouts == {0, 3}

\* The deadline runAction puts on the cycle's context, in time units from
\* the start of the cycle (0: none): NewWorker takes worker.timeout plus one
\* second when worker.timeout > 0, New takes worker.duration when that is > 0.
CtxDeadline(v, to, dur) ==
    IF v = "NewWorker"
    THEN IF to > 0 THEN to + UnitsPerSecond ELSE 0
    ELSE IF dur > 0 THEN dur ELSE 0

\* The longest deadline a cycle can have.
MaxAge ==
    LET D == {CtxDeadline(v, to, UnitsPerSecond) : v \in {"NewWorker", "New"}, to \in Timeouts}
    IN CHOOSE d \in D : \A e \in D : e <= d

\* The cycle's context is cancelled, by its deadline or by runAction's
\* deferred cancel: so are the contexts derived from it, the Locker's l.ctx
\* (made by LockMiddleware) and the contexts the monitorLock goroutines
\* listen on.  A context without deadline is never cancelled.
CtxEnds(w, ends) ==
    IF ends /\ CtxDeadline(variant, timeout, duration) > 0
    THEN /\ lcancel' = [lcancel EXCEPT ![w] = IF @ = "live" THEN "done" ELSE @]
         /\ ccancel' = [ccancel EXCEPT ![w] = IF @ = "live" THEN "done" ELSE @]
         /\ monitors' = [monitors EXCEPT ![w] =
               [cur |-> @.cur, oldLive |-> 0, oldDone |-> @.oldDone + @.oldLive]]
         /\ UNCHANGED <<lockTTL, storeVal, storeTTL, renewers>>
    ELSE UNCHANGED <<lockVars, watchVars>>

\* Where Run goes on after a cycle: the caller starts the goroutine, the
\* tick loop selects again.
Cont(g) == IF g = "main" THEN "spawn" ELSE "select"

\* runAction is entered by goroutine g.
Begin(w, g) ==
    /\ pc' = [pc EXCEPT ![w][g] = IF variant = "NewWorker" THEN "before" ELSE "action"]
    /\ cyc' = [cyc EXCEPT ![w][g] = [NoCycle EXCEPT !.idx = 1]]
    /\ running' = [running EXCEPT ![w] = @ + 1]

\* Run starting its goroutine before the fromStart cycle instead of after.
RunEnterSpawnFirst(w) ==
    /\ pc[w]["main"] = "start"
    /\ IF fromStart
       THEN /\ pc' = [pc EXCEPT ![w] =
                       [main |-> IF variant = "NewWorker" THEN "before" ELSE "action",
                        loop |-> "select"]]
            /\ cyc' = [cyc EXCEPT ![w]["main"] = [NoCycle EXCEPT !.idx = 1]]
            /\ running' = [running EXCEPT ![w] = @ + 1]
       ELSE /\ pc' = [pc EXCEPT ![w]["main"] = "spawn"]
            /\ UNCHANGED <<cyc, running>>
    /\ UNCHANGED <<stopper, done, tickPending, ctxDone, stopFired, doneSent, waited>>
    /\ UNCHANGED <<lockVars, obsVars, confVars, watchVars>>

\* Run going straight to its goroutine, whatever fromStart is.
RunEnterNoFirstCycle(w) ==
    /\ pc[w]["main"] = "start"
    /\ pc' = [pc EXCEPT ![w]["main"] = "spawn"]
    /\ UNCHANGED <<cyc, running>>
    /\ UNCHANGED <<stopper, done, tickPending, ctxDone, stopFired, doneSent, waited>>
    /\ UNCHANGED <<lockVars, obsVars, confVars, watchVars>>

\* Worker.Run is called: with fromStart one cycle runs in the caller.
RunEnter(w) ==
    /\ pc[w]["main"] = "start"
    /\ IF fromStart
       THEN Begin(w, "main")
       ELSE /\ pc' = [pc EXCEPT ![w]["main"] = "spawn"]
            /\ UNCHANGED <<cyc, running>>
    /\ UNCHANGED <<stopper, done, tickPending, ctxDone, stopFired, doneSent, waited>>
    /\ UNCHANGED <<lockVars, obsVars, confVars, watchVars>>

\* runAction (NewWorker): the next before-middleware runs and returns r.
BeforeMiddleware(w, g, r) ==
    /\ pc[w][g] = "before"
    /\ ~cyc[w][g].locked
    /\ cyc[w][g].idx <= Len(beforeMiddlewares)
    /\ RunMiddleware(beforeMiddlewares[cyc[w][g].idx], w, r)
    /\ cyc' = [cyc EXCEPT ![w][g] = [@ EXCEPT !.idx = @ + 1,
                                              !.locked = IsErrLocked(r)]]
    /\ UNCHANGED <<pc, stopper, done, tickPending, ctxDone>>
    /\ UNCHANGED <<wobsVars, confVars>>

\* runAction (NewWorker): the before-loop is left; a locked cycle returns nil
\* (its deferred function does nothing), any other calls the action.
BeforeDone(w, g) ==
    /\ pc[w][g] = "before"
    /\ cyc[w][g].locked \/ cyc[w][g].idx > Len(beforeMiddlewares)
    /\ IF cyc[w][g].locked
       THEN /\ pc' = [pc EXCEPT ![w][g] = "returned"]
            /\ cyc' = [cyc EXCEPT ![w][g].ret = runActionResult(variant, "nil")]
            /\ running' = [running EXCEPT ![w] = @ - 1]
       ELSE /\ pc' = [pc EXCEPT ![w][g] = "action"]
            /\ UNCHANGED <<cyc, running>>
    /\ CtxEnds(w, cyc[w][g].locked)
    /\ UNCHANGED <<stopper, done, tickPending, ctxDone, stopFired, doneSent, waited>>
    /\ UNCHANGED <<obsVars, confVars>>

\* The action (New) calls stop(): a send on the stopper channel.  The only
\* receiver is the tick loop's select, which this goroutine either is or has
\* not started yet: a send on the full channel never returns.
ActionStop(w, g) ==
    /\ variant = "New"
    /\ pc[w][g] = "action"
    /\ IF stopper[w] = 0
       THEN /\ stopper' = [stopper EXCEPT ![w] = 1]
            /\ stopFired' = [stopFired EXCEPT ![w] = TRUE]
            /\ UNCHANGED pc
       ELSE /\ pc' = [pc EXCEPT ![w][g] = "blockedStop"]
            /\ UNCHANGED <<stopper, stopFired>>
    /\ UNCHANGED <<cyc, done, tickPending, ctxDone, doneSent, waited, running>>
    /\ UNCHANGED <<lockVars, obsVars, confVars, watchVars>>

\* The after-middlewares called in line after the action, not deferred: a
\* panic of the action passes them by.
ActionReturnNoDefer(w, g, out) ==
    /\ pc[w][g] = "action"
    /\ IF variant = "NewWorker" /\ out # "panic"
       THEN /\ pc' = [pc EXCEPT ![w][g] = "after"]
            /\ cyc' = [cyc EXCEPT ![w][g] = [@ EXCEPT !.out = out, !.idx = 1]]
            /\ UNCHANGED running
       ELSE /\ pc' = [pc EXCEPT ![w][g] = "returned"]
            /\ cyc' = [cyc EXCEPT ![w][g] =
                         [@ EXCEPT !.out = out, !.ret = runActionResult(variant, out)]]
            /\ running' = [running EXCEPT ![w] = @ - 1]
    /\ UNCHANGED <<stopper, done, tickPending, ctxDone, stopFired, doneSent, waited>>
    /\ UNCHANGED <<lockVars, obsVars, confVars, watchVars>>

\* The action ends with outcome out.  NewWorker: the deferred after-middlewares
\* follow.  New: runAction returns try's result.
ActionReturn(w, g, out) ==
    /\ pc[w][g] = "action"
    /\ IF variant = "NewWorker"
       THEN /\ pc' = [pc EXCEPT ![w][g] = "after"]
            /\ cyc' = [cyc EXCEPT ![w][g] = [@ EXCEPT !.out = out, !.idx = 1]]
            /\ UNCHANGED running
       ELSE /\ pc' = [pc EXCEPT ![w][g] = "returned"]
            /\ cyc' = [cyc EXCEPT ![w][g] =
                         [@ EXCEPT !.out = out, !.ret = runActionResult(variant, out)]]
            /\ running' = [running EXCEPT ![w] = @ - 1]
    /\ CtxEnds(w, variant # "NewWorker")
    /\ UNCHANGED <<stopper, done, tickPending, ctxDone, stopFired, doneSent, waited>>
    /\ UNCHANGED <<obsVars, confVars>>

\* runAction (NewWorker), deferred: the next after-middleware runs.
AfterMiddleware(w, g, r) ==
    /\ pc[w][g] = "after"
    /\ cyc[w][g].idx <= Len(afterMiddlewares)
    /\ RunMiddleware(afterMiddlewares[cyc[w][g].idx], w, r)
    /\ cyc' = [cyc EXCEPT ![w][g].idx = @ + 1]
    /\ UNCHANGED <<pc, stopper, done, tickPending, ctxDone>>
    /\ UNCHANGED <<wobsVars, confVars>>

\* runAction (NewWorker): the after-middlewares are through; runAction returns.
AfterDone(w, g) ==
    /\ pc[w][g] = "after"
    /\ cyc[w][g].idx > Len(afterMiddlewares)
    /\ pc' = [pc EXCEPT ![w][g] = "returned"]
    /\ cyc' = [cyc EXCEPT ![w][g].ret = runActionResult(variant, cyc[w][g].out)]
    /\ running' = [running EXCEPT ![w] = @ - 1]
    /\ CtxEnds(w, TRUE)
    /\ UNCHANGED <<stopper, done, tickPending, ctxDone, stopFired, doneSent, waited>>
    /\ UNCHANGED <<obsVars, confVars>>

\* Run, after runAction: a non-nil error goes to the error handler, which
\* answers b; on false Run sends on the stopper channel.
RunCheck(w, g, b) ==
    /\ pc[w][g] = "returned"
    /\ LET call == cyc[w][g].ret # "nil" /\ hasHandler
       IN /\ cyc' = [cyc EXCEPT ![w][g] = NoCycle]
          /\ IF call /\ ~b
             THEN IF stopper[w] = 0
                  THEN /\ stopper' = [stopper EXCEPT ![w] = 1]
                       /\ stopFired' = [stopFired EXCEPT ![w] = TRUE]
                       /\ pc' = [pc EXCEPT ![w][g] = Cont(g)]
                  ELSE /\ pc' = [pc EXCEPT ![w][g] = "blockedSend"]
                       /\ UNCHANGED <<stopper, stopFired>>
             ELSE /\ pc' = [pc EXCEPT ![w][g] = Cont(g)]
                  /\ UNCHANGED <<stopper, stopFired>>
    /\ UNCHANGED <<done, tickPending, ctxDone, doneSent, waited, running>>
    /\ UNCHANGED <<lockVars, obsVars, confVars, watchVars>>

\* Run starts the goroutine and returns; the goroutine makes its ticker,
\* hands the wait function to teardown and reaches the select.
Spawn(w) ==
    /\ pc[w]["main"] = "spawn"
    /\ pc' = [pc EXCEPT ![w] = [main |-> "done", loop |-> "select"]]
    /\ UNCHANGED <<cyc, stopper, done, tickPending, ctxDone>>
    /\ UNCHANGED <<lockVars, obsVars, confVars, watchVars, wobsVars>>

\* select, case <-ctx.Done(): send on done and return.
SelectDone(w) ==
    /\ pc[w]["loop"] = "select"
    /\ ctxDone[w]
    /\ done[w] = 0
    /\ done' = [done EXCEPT ![w] = 1]
    /\ doneSent' = [doneSent EXCEPT ![w] = @ + 1]
    /\ pc' = [pc EXCEPT ![w]["loop"] = "exited"]
    /\ UNCHANGED <<cyc, stopper, tickPending, ctxDone, stopFired, waited, running>>
    /\ UNCHANGED <<lockVars, obsVars, confVars, watchVars>>

\* select, case <-worker.stopper: send on done and return.
SelectStopper(w) ==
    /\ pc[w]["loop"] = "select"
    /\ stopper[w] = 1
    /\ done[w] = 0
    /\ stopper' = [stopper EXCEPT ![w] = 0]
    /\ done' = [done EXCEPT ![w] = 1]
    /\ doneSent' = [doneSent EXCEPT ![w] = @ + 1]
    /\ pc' = [pc EXCEPT ![w]["loop"] = "exited"]
    /\ UNCHANGED <<cyc, tickPending, ctxDone, stopFired, waited, running>>
    /\ UNCHANGED <<lockVars, obsVars, confVars, watchVars>>

\* select, case <-ticker.C: one action cycle.  A select with several ready
\* cases takes any of them.
SelectTick(w) ==
    /\ pc[w]["loop"] = "select"
    /\ tickPending[w]
    /\ tickPending' = [tickPending EXCEPT ![w] = FALSE]
    /\ Begin(w, "loop")
    /\ UNCHANGED <<stopper, done, ctxDone, stopFired, doneSent, waited>>
    /\ UNCHANGED <<lockVars, obsVars, confVars, watchVars>>

\* The ticker of the running tick loop fires (a tick nobody took is dropped).
TickerFire(w) ==
    /\ pc[w]["loop"] \notin {"off", "exited"}
    /\ ~tickPending[w]
    /\ tickPending' = [tickPending EXCEPT ![w] = TRUE]
    /\ UNCHANGED <<pc, cyc, stopper, done, ctxDone>>
    /\ UNCHANGED <<lockVars, obsVars, confVars, watchVars, wobsVars>>

\* The external context is cancelled.
CancelCtx(w) ==
    /\ ~ctxDone[w]
    /\ ctxDone' = [ctxDone EXCEPT ![w] = TRUE]
    /\ stopFired' = [stopFired EXCEPT ![w] = TRUE]
    /\ UNCHANGED <<pc, cyc, stopper, done, tickPending, doneSent, waited, running>>
    /\ UNCHANGED <<lockVars, obsVars, confVars, watchVars>>

\* One time unit passes for the cycles of worker w: a context whose deadline
\* is reached is cancelled.
CycleClock(w) ==
    LET d == CtxDeadline(variant, timeout, duration)
        Hit(g) == pc[w][g] \in {"before", "action", "blockedStop", "after"}
                     /\ d > 0 /\ cyc[w][g].age + 1 >= d
    IN /\ cyc' = [cyc EXCEPT ![w] =
                    [g \in G |->
                       IF pc[w][g] \in {"before", "action", "blockedStop", "after"}
                       THEN [cyc[w][g] EXCEPT
                               !.age = IF @ < MaxAge THEN @ + 1 ELSE @,
                               !.ctx = IF Hit(g) THEN "done" ELSE @]
                       ELSE cyc[w][g]]]
       /\ CtxEnds(w, \E g \in G : Hit(g))
       /\ UNCHANGED <<pc, stopper, done, tickPending, ctxDone>>
       /\ UNCHANGED <<obsVars, confVars, wobsVars>>

\* The wait function handed to teardown receives from done and returns.
Wait(w) ==
    /\ pc[w]["loop"] # "off"
    /\ done[w] = 1
    /\ done' = [done EXCEPT ![w] = 0]
    /\ waited' = [waited EXCEPT ![w] = TRUE]
    /\ UNCHANGED <<pc, cyc, stopper, tickPending, ctxDone, stopFired, doneSent, running>>
    /\ UNCHANGED <<lockVars, obsVars, confVars, watchVars>>


\* ------------------------------------------------- the Locker on its own

LockerInit ==
    /\ storeVal = NoKey
    /\ storeTTL = 0
    /\ lcancel = [l \in Lockers |-> "nil"]
    /\ renewers = [l \in Lockers |-> <<>>]
    /\ lastOp = NoOp
    /\ sinceTouch = 0
    /\ touchBy = NoKey
    /\ released = FALSE
    /\ lapsed = NoKey
    /\ race = NoRace

InitLock ==
    /\ lockTTL \in TTLs
    /\ LockerInit
    /\ IdleWorkers
    /\ variant = "NewWorker"
    /\ fleet = {}
    /\ fromStart = FALSE
    /\ hasHandler = FALSE
    /\ timeout = 0
    /\ duration = UnitsPerSecond
    /\ beforeMiddlewares = <<>>
    /\ afterMiddlewares = <<>>

\* A client calls the Locker directly.
CallTryLock ==
    /\ \E l \in Lockers, r \in Results : TryLock(l, r) /\ ObsTryLock(l, r)
    /\ UNCHANGED <<leaseVars, confVars, watchVars, workVars, wobsVars, traceVars>>

CallUnlock ==
    /\ \E l \in Lockers, r \in {"nil", "err"} : Unlock(l, r) /\ ObsUnlock(l, r)
    /\ UNCHANGED <<leaseVars, confVars, watchVars, workVars, wobsVars, traceVars>>

CallRenewDone ==
    /\ \E l \in Lockers : \E k \in DOMAIN renewers[l] : RenewDone(l, k)
    /\ UNCHANGED <<obsVars, confVars, watchVars, workVars, wobsVars, traceVars>>

CallRenewTick ==
    /\ \E l \in Lockers, fail \in BOOLEAN : \E k \in DOMAIN renewers[l] :
          RenewTick(l, k, fail) /\ ObsRenew(l, fail)
    /\ UNCHANGED <<leaseVars, confVars, watchVars, workVars, wobsVars, traceVars>>

CallTime ==
    /\ TimePass
    /\ ObsTime
    /\ UNCHANGED <<leaseVars, confVars, watchVars, workVars, wobsVars, traceVars>>

NextLock ==
    \/ CallTryLock
    \/ CallUnlock
    \/ CallRenewDone
    \/ CallRenewTick
    \/ CallTime

SpecLock == InitLock /\ [][NextLock]_vars

\* The same calls, read against the lease clock.
LeaseTryLockCall ==
    /\ \E l \in Lockers, r \in Results : TryLock(l, r) /\ LeaseTryLock(l, r)
    /\ UNCHANGED <<raceVars, confVars, watchVars, workVars, wobsVars, traceVars>>

LeaseUnlockCall ==
    /\ \E l \in Lockers, r \in {"nil", "err"} : Unlock(l, r) /\ LeaseUnlock(l, r)
    /\ UNCHANGED <<raceVars, confVars, watchVars, workVars, wobsVars, traceVars>>

LeaseRenewDone ==
    /\ \E l \in Lockers : \E k \in DOMAIN renewers[l] : RenewDone(l, k)
    /\ UNCHANGED <<obsVars, confVars, watchVars, workVars, wobsVars, traceVars>>

LeaseRenewTick ==
    /\ \E l \in Lockers, fail \in BOOLEAN : \E k \in DOMAIN renewers[l] :
          RenewTick(l, k, fail) /\ LeaseRenew(l, fail)
    /\ UNCHANGED <<raceVars, confVars, watchVars, workVars, wobsVars, traceVars>>

LeaseTimePass ==
    /\ TimePass
    /\ LeaseTime
    /\ UNCHANGED <<raceVars, confVars, watchVars, workVars, wobsVars, traceVars>>

NextLease ==
    \/ LeaseTryLockCall
    \/ LeaseUnlockCall
    \/ LeaseRenewDone
    \/ LeaseRenewTick
    \/ LeaseTimePass

SpecLease == InitLock /\ [][NextLease]_vars

\* ------------------------------------------------- observing the cycles

\* The error handler is called with runAction's result.
HandlerCalled(w, g) == cyc[w][g].ret # "nil" /\ hasHandler

TraceBegin(w, g) ==
    /\ log' = [log EXCEPT ![w][g] = IF variant = "NewWorker" THEN <<>>
                                    ELSE <<Ev("action", 0, "-")>>]
    /\ handled' = [handled EXCEPT ![w][g] = "pending"]
    /\ taken' = IF g = "loop" THEN taken + 1 ELSE taken
    /\ begun' = begun + 1

TraceHook(w, g, e, r) ==
    /\ log' = [log EXCEPT ![w][g] = Append(@, Ev(e, cyc[w][g].idx, r))]
    /\ UNCHANGED <<handled, taken, begun>>

TraceAction(w, g) ==
    /\ log' = [log EXCEPT ![w][g] =
                 IF cyc[w][g].locked THEN @ ELSE Append(@, Ev("action", 0, "-"))]
    /\ UNCHANGED <<handled, taken, begun>>

TraceCheck(w, g, b) ==
    /\ log' = [log EXCEPT ![w][g] = <<>>]
    /\ handled' = [handled EXCEPT ![w][g] =
                     IF ~HandlerCalled(w, g) THEN "skipped"
                     ELSE IF b THEN "true" ELSE "false"]
    /\ UNCHANGED <<taken, begun>>

\* ------------------------------------------------ one Worker on its own

MaxHooks == 2

\* The ticks the tick loop under study receives at most.
MaxTicks == 2

\* The hook lists of at most MaxHooks plain middlewares.
HookLists == {[i \in 1..n |-> "Hook"] : n \in 0..MaxHooks}

InitWorker ==
    /\ lockTTL = MaxTTL
    /\ LockerInit
    /\ IdleWorkers
    /\ variant \in {"NewWorker", "New"}
    /\ fleet = {W1}
    /\ fromStart \in BOOLEAN
    /\ hasHandler \in BOOLEAN
    /\ timeout = 0
    /\ duration = UnitsPerSecond
    /\ beforeMiddlewares \in (IF variant = "NewWorker" THEN HookLists ELSE {<<>>})
    /\ afterMiddlewares \in (IF variant = "NewWorker" THEN HookLists ELSE {<<>>})

\* This step has entered runAction.
CycleBegan(w) == running'[w] = running[w] + 1

StepRunEnter ==
    /\ RunEnter(W1)
    /\ IF CycleBegan(W1) THEN TraceBegin(W1, "main") ELSE UNCHANGED traceVars

StepBeforeMiddleware ==
    \E g \in G, r \in Results :
        BeforeMiddleware(W1, g, r) /\ TraceHook(W1, g, "before", r)

StepBeforeDone == \E g \in G : BeforeDone(W1, g) /\ TraceAction(W1, g)

StepActionStop == (\E g \in G : ActionStop(W1, g)) /\ UNCHANGED traceVars

StepActionReturn ==
    /\ \E g \in G, out \in Outcomes : ActionReturn(W1, g, out)
    /\ UNCHANGED traceVars

StepAfterMiddleware ==
    \E g \in G, r \in Results :
        AfterMiddleware(W1, g, r) /\ TraceHook(W1, g, "after", r)

StepAfterDone == (\E g \in G : AfterDone(W1, g)) /\ UNCHANGED traceVars

StepRunCheck ==
    \E g \in G, b \in BOOLEAN : RunCheck(W1, g, b) /\ TraceCheck(W1, g, b)

StepSpawn == Spawn(W1) /\ UNCHANGED traceVars
StepSelectDone == SelectDone(W1) /\ UNCHANGED traceVars
StepSelectStopper == SelectStopper(W1) /\ UNCHANGED traceVars
StepSelectTick == taken < MaxTicks /\ SelectTick(W1) /\ TraceBegin(W1, "loop")
StepTickerFire == TickerFire(W1) /\ UNCHANGED traceVars
StepCancelCtx == CancelCtx(W1) /\ UNCHANGED traceVars
StepWait == Wait(W1) /\ UNCHANGED traceVars

NextWorker ==
    \/ StepRunEnter
    \/ StepBeforeMiddleware
    \/ StepBeforeDone
    \/ StepActionStop
    \/ StepActionReturn
    \/ StepAfterMiddleware
    \/ StepAfterDone
    \/ StepRunCheck
    \/ StepSpawn
    \/ StepSelectDone
    \/ StepSelectStopper
    \/ StepSelectTick
    \/ StepTickerFire
    \/ StepCancelCtx
    \/ StepWait

SpecWorker == InitWorker /\ [][NextWorker]_vars

FairWorker ==
    /\ WF_vars(StepRunEnter)
    /\ WF_vars(StepBeforeMiddleware)
    /\ WF_vars(StepBeforeDone)
    /\ WF_vars(StepActionReturn)
    /\ WF_vars(StepAfterMiddleware)
    /\ WF_vars(StepAfterDone)
    /\ WF_vars(StepRunCheck)
    /\ WF_vars(StepSpawn)
    /\ SF_vars(StepSelectDone)
    /\ SF_vars(StepSelectStopper)
    /\ WF_vars(StepWait)

\* Every goroutine that can run does; a select whose stop case is ready again
\* and again takes it in the end (the runtime chooses among ready cases at
\* random).
FairSpecWorker == SpecWorker /\ FairWorker

\* --------------------------------------------------- a Worker and its clock

\* One Worker of either variant without middlewares, with and without
\* Timeout(), ticking every second.
InitDeadline ==
    /\ lockTTL = MaxTTL
    /\ LockerInit
    /\ IdleWorkers
    /\ variant \in {"NewWorker", "New"}
    /\ fleet = {W1}
    /\ fromStart \in BOOLEAN
    /\ hasHandler \in BOOLEAN
    /\ timeout \in Timeouts
    /\ duration = UnitsPerSecond
    /\ beforeMiddlewares = <<>>
    /\ afterMiddlewares = <<>>

StepClock == CycleClock(W1) /\ UNCHANGED traceVars

NextDeadline ==
    \/ StepRunEnter
    \/ StepBeforeDone
    \/ StepActionStop
    \/ StepActionReturn
    \/ StepAfterDone
    \/ StepRunCheck
    \/ StepSpawn
    \/ StepSelectDone
    \/ StepSelectStopper
    \/ StepSelectTick
    \/ StepTickerFire
    \/ StepCancelCtx
    \/ StepWait
    \/ StepClock

SpecDeadline == InitDeadline /\ [][NextDeadline]_vars

\* -------------------------------------------------------------- the fleet

\* Every instance is a NewWorker Worker with LockMiddleware before and
\* UnlockMiddleware after the action, all on one worker name; every cycle is
\* a ticked one.
InitFleet ==
    /\ lockTTL \in TTLs
    /\ LockerInit
    /\ IdleWorkers
    /\ variant = "NewWorker"
    /\ fleet = Workers
    /\ fromStart = FALSE
    /\ hasHandler = FALSE
    /\ timeout = 0
    /\ duration = UnitsPerSecond
    /\ beforeMiddlewares = <<"Lock">>
    /\ afterMiddlewares = <<"Unlock">>

FleetRunEnter == (\E w \in fleet : RunEnter(w)) /\ UNCHANGED traceVars

FleetBeforeMiddleware ==
    /\ \E w \in fleet, g \in G, r \in Results : BeforeMiddleware(w, g, r)
    /\ UNCHANGED traceVars

FleetBeforeDone ==
    /\ \E w \in fleet, g \in G : BeforeDone(w, g)
    /\ UNCHANGED traceVars

FleetActionReturn ==
    /\ \E w \in fleet, g \in G, out \in Outcomes : ActionReturn(w, g, out)
    /\ UNCHANGED traceVars

FleetAfterMiddleware ==
    /\ \E w \in fleet, g \in G, r \in Results : AfterMiddleware(w, g, r)
    /\ UNCHANGED traceVars

FleetAfterDone ==
    /\ \E w \in fleet, g \in G : AfterDone(w, g)
    /\ UNCHANGED traceVars

FleetRunCheck ==
    /\ \E w \in fleet, g \in G, b \in BOOLEAN : RunCheck(w, g, b)
    /\ UNCHANGED traceVars

FleetSpawn == (\E w \in fleet : Spawn(w)) /\ UNCHANGED traceVars
FleetSelectTick == (\E w \in fleet : SelectTick(w)) /\ UNCHANGED traceVars
FleetTickerFire == (\E w \in fleet : TickerFire(w)) /\ UNCHANGED traceVars

FleetRenewDone ==
    /\ \E l \in Lockers : \E k \in DOMAIN renewers[l] : RenewDone(l, k)
    /\ UNCHANGED <<obsVars, confVars, watchVars, workVars, wobsVars, traceVars>>

FleetRenewTick ==
    /\ \E l \in Lockers, fail \in BOOLEAN : \E k \in DOMAIN renewers[l] :
          RenewTick(l, k, fail)
    /\ UNCHANGED <<obsVars, confVars, watchVars, workVars, wobsVars, traceVars>>

FleetTime ==
    /\ TimePass
    /\ UNCHANGED <<obsVars, confVars, watchVars, workVars, wobsVars, traceVars>>

NextFleet ==
    \/ FleetRunEnter
    \/ FleetBeforeMiddleware
    \/ FleetBeforeDone
    \/ FleetActionReturn
    \/ FleetAfterMiddleware
    \/ FleetAfterDone
    \/ FleetRunCheck
    \/ FleetSpawn
    \/ FleetSelectTick
    \/ FleetTickerFire
    \/ FleetRenewDone
    \/ FleetRenewTick
    \/ FleetTime

SpecFleet == InitFleet /\ [][NextFleet]_vars

\* ------------------------------------------- a Worker that watches its lock

\* One NewWorker Worker with LockMiddleware and CancelRunningWorker.Middleware
\* before and UnlockMiddleware after the action; every cycle is a ticked one
\* and no Timeout() is configured.
InitWatch ==
    /\ lockTTL \in TTLs
    /\ LockerInit
    /\ IdleWorkers
    /\ variant = "NewWorker"
    /\ fleet = {W1}
    /\ fromStart = FALSE
    /\ hasHandler = FALSE
    /\ timeout = 0
    /\ duration = UnitsPerSecond
    /\ beforeMiddlewares = <<"Lock", "Cancel">>
    /\ afterMiddlewares = <<"Unlock">>

WatchMonitorDone ==
    /\ \E w \in fleet, k \in MonitorKinds : MonitorDone(w, k)
    /\ UNCHANGED <<lockVars, obsVars, confVars, workVars, wobsVars, traceVars>>

WatchMonitorTick ==
    /\ \E w \in fleet, k \in MonitorKinds, readErr \in BOOLEAN :
          MonitorTick(w, k, readErr)
    /\ UNCHANGED <<lockVars, obsVars, confVars, workVars, wobsVars, traceVars>>

NextWatch ==
    \/ FleetRunEnter
    \/ FleetBeforeMiddleware
    \/ FleetBeforeDone
    \/ FleetActionReturn
    \/ FleetAfterMiddleware
    \/ FleetAfterDone
    \/ FleetRunCheck
    \/ FleetSpawn
    \/ FleetSelectTick
    \/ FleetTickerFire
    \/ FleetRenewDone
    \/ FleetRenewTick
    \/ FleetTime
    \/ WatchMonitorDone
    \/ WatchMonitorTick

SpecWatch == InitWatch /\ [][NextWatch]_vars

\* Every goroutine that can run does, tickers keep firing and time passes.
FairWatch ==
    /\ WF_vars(FleetRunEnter)
    /\ WF_vars(FleetBeforeMiddleware)
    /\ WF_vars(FleetBeforeDone)
    /\ WF_vars(FleetActionReturn)
    /\ WF_vars(FleetAfterMiddleware)
    /\ WF_vars(FleetAfterDone)
    /\ WF_vars(FleetRunCheck)
    /\ WF_vars(FleetSpawn)
    /\ WF_vars(FleetSelectTick)
    /\ WF_vars(FleetTickerFire)
    /\ WF_vars(FleetRenewDone)
    /\ WF_vars(FleetRenewTick)
    /\ WF_vars(FleetTime)
    /\ WF_vars(WatchMonitorDone)
    /\ WF_vars(WatchMonitorTick)

FairSpecWatch == SpecWatch /\ FairWatch

\* The instances whose action is executing.
Executing == {w \in Workers : \E g \in G : pc[w][g] \in {"action", "blockedStop"}}

\* C1: among the Worker instances sharing one worker name, each with
\* LockMiddleware before and UnlockMiddleware after the action, at most one
\* is executing its action at any time.
C1_OneExecutor == Cardinality(Executing) <= 1

\* ------------------------------------------------------- the Worker's loop

InCycle(w, g) == pc[w][g] \in {"before", "action", "blockedStop", "after"}

\* C6: within one Worker action cycles never overlap: at most one cycle
\* (before-hooks, action, after-hooks) has begun and not yet returned, also
\* while a tick is waiting behind a slow action and around the run-from-start
\* cycle.
C6_NoOverlap ==
    /\ running[W1] <= 1
    /\ ~(InCycle(W1, "main") /\ InCycle(W1, "loop"))

C6_Witness ==
    /\ fromStart
    /\ pc[W1]["main"] = "done"
    /\ pc[W1]["loop"] = "action"
    /\ tickPending[W1]

\* C7: once a stop signal has fired (external cancellation, or a stop request
\* placed on the stopper channel), the tick loop starts no further action
\* cycle, whatever else is ready when it selects.
C7_StopIsTerminal ==
    [][(stopFired[W1] /\ pc[W1]["loop"] = "select")
          => pc'[W1]["loop"] \in {"select", "exited"}]_vars

Blocked(p) == \E g \in G : pc[W1][g] = p

\* C8: the done signal is sent at most once, and after a stop signal it is in
\* the end sent exactly once, the tick loop has exited and the wait function
\* handed to teardown returns -- unless the action itself never returns.
C8_DoneExactlyOnce ==
    /\ [](doneSent[W1] <= 1)
    /\ \/ <>[]Blocked("blockedStop")
       \/ stopFired[W1] ~> (/\ doneSent[W1] = 1
                            /\ pc[W1]["loop"] = "exited"
                            /\ waited[W1])

CycleShape(L, p) ==
    LET nb == Len(beforeMiddlewares)
        Skipped == \E k \in 1..Len(L) : L[k].e = "before" /\ L[k].r = "ErrLocked"
    IN /\ \A k \in 1..Len(L) :
            /\ L[k].e = "before" =>
                  /\ L[k].i = k
                  /\ k > 1 => (L[k - 1].e = "before" /\ L[k - 1].r # "ErrLocked")
            /\ L[k].e = "action" => (k = nb + 1 /\ ~Skipped)
            /\ L[k].e = "after" => (L[k].i >= 1 /\ L[k].i = k - nb - 1 /\ ~Skipped)
       /\ p = "returned" => (Skipped \/ Len(L) = nb + 1 + Len(afterMiddlewares))

\* C9: in every cycle of the NewWorker variant the before-hooks run in
\* registration order, none runs after the first that returned ErrLocked, the
\* action and all after-hooks run exactly when no before-hook returned
\* ErrLocked, and any other before-hook error suppresses nothing.
C9_SkipSemantics ==
    variant = "NewWorker" => \A g \in G : CycleShape(log[W1][g], pc[W1][g])

C9_Witness ==
    /\ variant = "NewWorker"
    /\ \E g \in G :
         /\ pc[W1][g] = "returned"
         /\ Len(log[W1][g]) = 2 * MaxHooks + 1
         /\ \E k \in 1..MaxHooks : log[W1][g][k].r = "err"

\* C10: in the NewWorker variant an action error reaches the configured
\* error handler, and a handler answering false raises the stop signal.
C10_HandlerInvoked ==
    [][(variant = "NewWorker" /\ hasHandler) =>
          \A g \in G :
              (pc[W1][g] = "returned" /\ pc'[W1][g] # "returned") =>
                  /\ cyc[W1][g].out = "err" => handled'[W1][g] # "skipped"
                  /\ handled'[W1][g] = "false" => stopFired'[W1]]_vars

\* ------------------------------------------------------ the lock protocol

Winners == {l \in Lockers : race.res[l] = "nil"}

\* C2: when distinct Locker instances call TryLock on the absent key, with no
\* store call failing and before any renewal, release or expiry touches the
\* key, exactly one call has returned nil, every other call has returned
\* ErrLocked, and the stored value is the winner's token.
C2_ExactlyOneWins ==
    race.valid =>
        /\ Cardinality(Winners) = 1
        /\ \A l \in Lockers : race.res[l] \in {"-", "nil", "ErrLocked"}
        /\ \A l \in Winners : storeVal = generateLockValue(l)

C2_Witness ==
    /\ race.valid
    /\ \A l \in Lockers : race.res[l] # "-"
    /\ \E l \in Lockers : race.res[l] = "ErrLocked"

\* C3: an Unlock by an instance whose token is not the stored value leaves
\* the record as it was (value and expiry); Unlock removes the key only
\* when the stored value is the caller's token.
C3_ForeignUnlockNoop ==
    (lastOp.op = "Unlock" /\ lastOp.preVal # generateLockValue(lastOp.who)) =>
        /\ storeVal = lastOp.preVal
        /\ storeTTL = lastOp.preTTL

C3_Witness ==
    /\ lastOp.op = "Unlock"
    /\ lastOp.res = "nil"
    /\ lastOp.who = lapsed
    /\ storeVal \notin {NoKey, generateLockValue(lastOp.who)}

\* C4: a TryLock of another instance succeeds, without a release by the
\* owner, only once lockTTL has elapsed since the owner's last successful
\* acquire or renewal.
C4_TTLSafety ==
    (/\ lastOp.op = "TryLock"
     /\ lastOp.res = "nil"
     /\ lastOp.prev \notin {NoKey, lastOp.who}
     /\ ~lastOp.rel) => lastOp.gap >= lockTTL

\* C5: after a renewal whose token comparison succeeded, the stored value is
\* the owner's token and the key's remaining expiry is lockTTL.
C5_RenewResetsTTL ==
    (lastOp.op = "Renew" /\ lastOp.res = "nil") =>
        /\ storeVal = generateLockValue(lastOp.who)
        /\ storeTTL = lockTTL

\* ------------------------------------------------- the internal stop request

\* C11: in the New variant raising the stop request never blocks: whatever
\* number of stop() calls the action makes and whatever the error handler
\* answers, in the run-from-start cycle or in a ticked one, no goroutine is
\* ever stuck in a send on the stopper channel.
C11_StopNeverBlocks ==
    variant = "New" => (~Blocked("blockedStop") /\ ~Blocked("blockedSend"))

\* C12: when, while the action of a cycle is executing, a monitorLock poll
\* finds that this instance no longer owns the lock and calls c.cancel, the
\* context the action received is cancelled, and the polling goroutine
\* returns without touching the key.
C12_LossCancelsAction ==
    [][\A w \in Workers, g \in G :
          (pc[w][g] = "action" /\ ccancel[w] = "live" /\ ccancel'[w] = "done") =>
              /\ cyc'[w][g].ctx = "done"
              /\ NumMonitors(w)' = NumMonitors(w) - 1
              /\ storeVal' = storeVal]_vars

\* C14: with fromStart exactly one cycle runs, to completion, before Run
\* starts the tick loop and returns; without it no cycle runs before the
\* first tick; so the cycles begun are the ticks received, plus one with
\* fromStart.
C14_FromStartFirst ==
    /\ begun = taken + (IF fromStart /\ pc[W1]["main"] # "start" THEN 1 ELSE 0)
    /\ pc[W1]["loop"] = "off" => taken = 0
    /\ pc[W1]["loop"] # "off" => pc[W1]["main"] = "done"
    /\ pc[W1]["main"] \in {"spawn", "done"} =>
          (running[W1] = 0 \/ pc[W1]["loop"] \in {"before", "action", "blockedStop", "after"})
    /\ pc[W1]["main"] = "spawn" => (running[W1] = 0 /\ cyc[W1]["main"] = NoCycle)

C14_Witness ==
    /\ fromStart
    /\ ctxDone[W1]
    /\ pc[W1]["loop"] = "exited"
    /\ taken = MaxTicks
    /\ begun = MaxTicks + 1

\* ----------------------------------------------------- errors and panics

\* C13: a panic of the action stays inside its cycle (Run goes on after it)
\* and reaches the configured error handler like a returned error: the
\* handler is called, and its answering false raises the stop signal.
C13_PanicHandled ==
    [][\A g \in G :
          (/\ hasHandler
           /\ pc[W1][g] = "returned"
           /\ pc'[W1][g] # "returned"
           /\ cyc[W1][g].out = "panic") =>
              /\ pc'[W1][g] \in {Cont(g), "blockedSend"}
              /\ handled'[W1][g] # "skipped"
              /\ handled'[W1][g] = "false" => stopFired'[W1]]_vars

\* C15: in the New variant a cycle whose action returned nil without
\* panicking makes runAction return nil: the error handler is not called and
\* the cycle raises no stop signal.
C15_NilNotHandled ==
    [][\A g \in G :
          (/\ variant = "New"
           /\ pc[W1][g] = "returned"
           /\ pc'[W1][g] # "returned"
           /\ cyc[W1][g].out = "nil") =>
              /\ cyc[W1][g].ret = "nil"
              /\ handled'[W1][g] = "skipped"
              /\ stopper'[W1] = stopper[W1]]_vars

\* The after-hook events of a cycle's log.
AfterEvents(L) == SelectSeq(L, LAMBDA x : x.e = "after")

\* C16: in a NewWorker cycle that is not skipped the after-hooks run after
\* the action, in registration order, all of them whatever the action's
\* outcome (nil, error, panic) and whatever an earlier after-hook returned;
\* what runAction returns does not depend on what they returned.
C16_AfterHooksAlwaysRun ==
    variant = "NewWorker" =>
        \A g \in G :
            LET L == log[W1][g]
                A == AfterEvents(L)
            IN /\ \A j \in 1..Len(A) : A[j].i = j
               /\ Len(A) > 0 =>
                     /\ L[Len(L) - Len(A)].e = "action"
                     /\ SubSeq(L, Len(L) - Len(A) + 1, Len(L)) = A
               /\ pc[W1][g] = "after" =>
                     (cyc[W1][g].out \in Outcomes /\ Len(A) = cyc[W1][g].idx - 1)
               /\ (pc[W1][g] = "returned" /\ ~cyc[W1][g].locked) =>
                     /\ cyc[W1][g].out \in Outcomes
                     /\ Len(A) = Len(afterMiddlewares)
                     /\ cyc[W1][g].ret = runActionResult(variant, cyc[W1][g].out)

C16_Witness ==
    /\ variant = "NewWorker"
    /\ Len(afterMiddlewares) = MaxHooks
    /\ \E g \in G :
         /\ pc[W1][g] = "returned"
         /\ cyc[W1][g].out = "panic"
         /\ Len(AfterEvents(log[W1][g])) = MaxHooks
         /\ AfterEvents(log[W1][g])[1].r = "err"

\* ------------------------------------------------------ the renewal loops

\* C17: a renewal step that finds another value stored, or whose store call
\* fails, cancels l.ctx and ends its goroutine at once; and while l.ctx is
\* cancelled, that is until a TryLock of this Locker succeeds again, no
\* renewal step of this Locker extends the key.
C17_FailedRenewalStops ==
    [][\A l \in Lockers :
          (/\ lastOp'.op = "Renew"
           /\ lastOp'.who = l
           /\ renewers'[l] # renewers[l]) =>
              /\ lastOp'.res # "nil" =>
                    /\ lcancel'[l] = "done"
                    /\ Len(renewers'[l]) = Len(renewers[l]) - 1
                    /\ storeTTL' = storeTTL
              /\ lcancel[l] = "done" => lastOp'.res # "nil"]_vars

C17_Witness ==
    /\ lastOp.op = "Renew"
    /\ lastOp.res = "lost"
    /\ storeVal \notin {NoKey, generateLockValue(lastOp.who)}
    /\ lcancel[lastOp.who] = "done"

\* C20: at most one renewLock goroutine is running for a Locker at any time.
C20_OneRenewalLoop == \A l \in Lockers : Len(renewers[l]) <= 1

\* ------------------------------------------------ the cycle's context

\* C18: the context of a cycle is cancelled by a deadline exactly when a
\* timeout is configured and that timeout has passed since the cycle began:
\* never without Timeout(), not before the timeout, and no later.
C18_DeadlineIsTimeout ==
    \A g \in G :
        InCycle(W1, g) =>
            (cyc[W1][g].ctx = "done" <=> (timeout > 0 /\ cyc[W1][g].age >= timeout))

\* C19: a lock that LockMiddleware acquired is given up in the end, by Unlock
\* or by expiry, also when a later before-hook of the cycle returned
\* ErrLocked and the cycle was skipped: the key does not stay this
\* instance's for ever.
C19_LockGivenUp ==
    (storeVal = generateLockValue(W1)) ~> (storeVal # generateLockValue(W1))

====
